---- MODULE Spec2Model ----
(***************************************************************************)
(* Inventory / project consistency engine of the component manager:       *)
(* the SQLite tables of database.py (components, projects,                *)
(* project_components), the operations of ComponentInventoryDB on them,   *)
(* the two front-end handlers of cmd.py that write to the tables          *)
(* themselves ('d', delete component with cascade, and 'dp', delete       *)
(* project), the handlers 'at', 'rf' and 'bp' with the line they print,   *)
(* and can_build_project and get_low_stock_components of logic.py.        *)
(* A state of the model is a committed state of the database              *)
(* file.  Every operation is a function from the database and the         *)
(* arguments of the call to the outcome of the call: the database it      *)
(* leaves, the exception it raises and the value it returns.              *)
(***************************************************************************)
EXTENDS Integers, Sequences, FiniteSets, TLC

VARIABLES
    components,          \* table components: id -> [key, quantity, projects]
    projects,            \* table projects: id -> [name, description, status]
    project_components,  \* table project_components: <<project_id, component_id>> -> quantity
    seq_components,      \* sqlite_sequence of components (AUTOINCREMENT)
    seq_projects         \* sqlite_sequence of projects (AUTOINCREMENT)

vars == <<components, projects, project_components, seq_components, seq_projects>>

\* the database as one value
DB ==
    [components |-> components, projects |-> projects,
     project_components |-> project_components,
     seq_components |-> seq_components, seq_projects |-> seq_projects]

(***************************************************************************)
(* Bounds of the model.                                                    *)
(***************************************************************************)
\* component ids ever handed out by AUTOINCREMENT
MaxComponents == 2
\* project ids ever handed out by AUTOINCREMENT
MaxProjects == 2
\* largest stock quantity a row may reach
MaxQty == 2
\* largest required quantity of a link
MaxRequired == 2
\* rows of project_components
MaxLinks == 2

(***************************************************************************)
(* Text.  A string is a sequence of one-character strings, so that the    *)
(* SQL text functions used on components.projects are computed.           *)
(***************************************************************************)
Digits == <<"0", "1", "2", "3", "4", "5", "6", "7", "8", "9">>

RECURSIVE ToDecimal(_)
\* str(n) of a non-negative int, as the f-string f"proj_{project_id}" formats it
ToDecimal(n) ==
    IF n < 10 THEN <<Digits[n + 1]>>
    ELSE ToDecimal(n \div 10) \o <<Digits[(n % 10) + 1]>>

\* f"proj_{project_id}"
ProjectTag(project_id) == <<"p", "r", "o", "j", "_">> \o ToDecimal(project_id)

\* SQLite's LIKE folds ASCII upper case to lower case
Fold(ch) ==
    CASE ch = "P" -> "p"
      [] ch = "R" -> "r"
      [] ch = "O" -> "o"
      [] ch = "J" -> "j"
      [] OTHER -> ch

RECURSIVE LikeMatch(_, _)
\* s LIKE pat: % matches any run of characters, _ any one character
LikeMatch(pat, s) ==
    IF pat = <<>> THEN s = <<>>
    ELSE IF Head(pat) = "%"
         THEN \E k \in 0..Len(s) : LikeMatch(Tail(pat), SubSeq(s, k + 1, Len(s)))
         ELSE /\ s # <<>>
              /\ (Head(pat) = "_" \/ Fold(Head(pat)) = Fold(Head(s)))
              /\ LikeMatch(Tail(pat), Tail(s))

\* s LIKE '%' || tag || '%'
LikeContains(s, tag) == LikeMatch(<<"%">> \o tag \o <<"%">>, s)

RECURSIVE Replace(_, _, _)
\* REPLACE(x, y, z): every non-overlapping occurrence of y in x, left to right
Replace(x, y, z) ==
    IF y = <<>> \/ Len(x) < Len(y) THEN x
    ELSE IF SubSeq(x, 1, Len(y)) = y
         THEN z \o Replace(SubSeq(x, Len(y) + 1, Len(x)), y, z)
         ELSE <<Head(x)>> \o Replace(Tail(x), y, z)

RECURSIVE TrimLeft(_)
TrimLeft(s) == IF s # <<>> /\ Head(s) = " " THEN TrimLeft(Tail(s)) ELSE s

RECURSIVE TrimRight(_)
TrimRight(s) ==
    IF s # <<>> /\ s[Len(s)] = " " THEN TrimRight(SubSeq(s, 1, Len(s) - 1)) ELSE s

\* TRIM(s): spaces removed from both ends
Trim(s) == TrimRight(TrimLeft(s))

RECURSIVE Split(_)
\* the space-separated tokens of s (used to state the properties of the
\* projects string; the program itself never splits it)
Split(s) ==
    IF s = <<>> THEN <<>>
    ELSE IF Head(s) = " " THEN Split(Tail(s))
    ELSE LET n == CHOOSE k \in 1..Len(s) :
                     /\ \A i \in 1..k : s[i] # " "
                     /\ (k = Len(s) \/ s[k + 1] = " ")
         IN <<SubSeq(s, 1, n)>> \o Split(SubSeq(s, n + 1, Len(s)))

\* how many of the tokens of s are exactly tok
TokenCount(s, tok) == Cardinality({i \in 1..Len(Split(s)) : Split(s)[i] = tok})

(***************************************************************************)
(* Inputs a caller may pass.                                               *)
(***************************************************************************)
\* (type, name, package) of a candidate component
Keys == {<<"MCU", "STM32F401", "LQFP-64">>, <<"MCU", "STM32F401", "QFN-48">>}
\* candidate.quantity: int(input("Quantity: ")) accepts negative numbers
QtyInputs == -1..MaxQty
\* candidate.projects: free text typed by the user
ProjectsInputs == {<<>>, ProjectTag(10)}
Names == {"Blinker", "Unnamed"}
Descriptions == {""}
ComponentIds == 1..MaxComponents
ProjectIds == 1..MaxProjects
\* the quantity argument of add_component_to_project
RequiredInputs == 0..MaxRequired
Answers == {"y", "n"}
\* get_low_stock_components, line 30: threshold: int = 5
DefaultThreshold == 5
\* the arguments of get_low_stock_components after db: a threshold or none
ThresholdInputs ==
    {<<>>} \cup {<<t>> : t \in (0..(MaxQty + 1)) \cup {DefaultThreshold}}

(***************************************************************************)
(* Schema of _create_tables.                                               *)
(***************************************************************************)
\* components.quantity INTEGER NOT NULL CHECK(quantity >= 0)
CheckComponentQuantity_Dropped(quantity) == TRUE
CheckComponentQuantity(quantity) == quantity >= 0

\* project_components.quantity INTEGER NOT NULL CHECK(quantity > 0)
CheckLinkQuantity(quantity) == quantity > 0

\* projects.status DEFAULT 'active'
DefaultStatus == "active"

\* f restricted to the arguments in S
Restrict(f, S) == [x \in S |-> f[x]]

\* INSERT OR IGNORE: f with the argument x added, kept as it is when present
Put_KeepsOld(f, x, v) ==
    [y \in DOMAIN f \cup {x} |-> IF y \in DOMAIN f THEN f[y] ELSE v]

\* f with the argument x added or replaced
Put(f, x, v) == [y \in DOMAIN f \cup {x} |-> IF y = x THEN v ELSE f[y]]

\* a table without rows
EmptyTable == [x \in {} |-> x]

\* the rows of project_components that reference component_id
LinksOfComponent(db, component_id) ==
    {l \in DOMAIN db.project_components : l[2] = component_id}

\* the rows of project_components that belong to project_id
LinksOfProject(db, project_id) ==
    {l \in DOMAIN db.project_components : l[1] = project_id}

\* the outcome of a call: the database it leaves (committed), the exception
\* it raises ("none": it returns), the id or the flag it returns
Outcome(db, exc, ret, ok) == [db |-> db, exc |-> exc, ret |-> ret, ok |-> ok]

Returns(db, ret, ok) == Outcome(db, "none", ret, ok)

Raises(db, exc) == Outcome(db, exc, 0, FALSE)

(***************************************************************************)
(* ComponentInventoryDB.add_component                                      *)
(***************************************************************************)
\* line 99: new_qty = existing_qty + component.quantity
MergedQuantity_Overwrites(existing_qty, quantity) == quantity
MergedQuantity(existing_qty, quantity) == existing_qty + quantity

add_component(db, key, quantity, projs) ==
    LET existing == {id \in DOMAIN db.components : db.components[id].key = key}
    IN IF existing # {}
       THEN LET existing_id == CHOOSE id \in existing : TRUE
                new_qty == MergedQuantity(db.components[existing_id].quantity,
                                          quantity)
            IN IF CheckComponentQuantity(new_qty)
               THEN Returns([db EXCEPT !.components[existing_id].quantity = new_qty],
                            existing_id, FALSE)
               ELSE Raises(db, "IntegrityError")
       ELSE IF CheckComponentQuantity(quantity)
            THEN LET new_id == db.seq_components + 1
                 IN Returns([db EXCEPT
                               !.components =
                                   Put(@, new_id, [key |-> key,
                                                   quantity |-> quantity,
                                                   projects |-> projs]),
                               !.seq_components = new_id],
                            new_id, FALSE)
            ELSE Raises(db, "IntegrityError")

(***************************************************************************)
(* ComponentInventoryDB.update_component                                   *)
(***************************************************************************)
\* the components table without its UNIQUE constraint
UniqueKey_Dropped(db, id, key) == TRUE

\* UNIQUE(type, name, package): no row other than id holds key
UniqueKey(db, id, key) ==
    \A other \in DOMAIN db.components \ {id} : db.components[other].key # key

update_component(db, id, key, quantity, projs) ==
    IF id \notin DOMAIN db.components
    THEN Returns(db, 0, FALSE)
    ELSE IF ~CheckComponentQuantity(quantity) \/ ~UniqueKey(db, id, key)
    THEN Raises(db, "IntegrityError")
    ELSE Returns([db EXCEPT !.components[id] =
                      [key |-> key, quantity |-> quantity, projects |-> projs]],
                 0, TRUE)

(***************************************************************************)
(* ComponentInventoryDB.delete_component                                   *)
(***************************************************************************)
\* lines 164-165: SELECT 1 FROM project_components WHERE component_id = ?
InUse_Unchecked(db, component_id) == FALSE
InUse(db, component_id) == LinksOfComponent(db, component_id) # {}

delete_component(db, component_id) ==
    IF InUse(db, component_id)
    THEN Raises(db, "ValueError")
    ELSE Returns([db EXCEPT !.components =
                      Restrict(@, DOMAIN @ \ {component_id})],
                 0, component_id \in DOMAIN db.components)

(***************************************************************************)
(* handle_command, 'd': delete a component with its links.  The handler   *)
(* commits twice: after the links are deleted and the projects string is  *)
(* cleared, and after the row is deleted.                                  *)
(***************************************************************************)
\* lines 102-114: TRUE when the handler goes on to delete
cmd_d_proceeds(db, comp_id, force, confirm) ==
    ~(LinksOfComponent(db, comp_id) # {} /\ ~force /\ confirm # "y")

\* lines 115-117 with the DELETE and the UPDATE without their WHERE clauses
cmd_d_first_commit_NoWhere(db, comp_id) ==
    [db EXCEPT
       !.project_components = EmptyTable,
       !.components = [id \in DOMAIN @ |-> [@[id] EXCEPT !.projects = <<>>]]]

\* lines 115-117: DELETE FROM project_components WHERE component_id = ?;
\* UPDATE components SET projects = '' WHERE id = ?; commit
cmd_d_first_commit(db, comp_id) ==
    [db EXCEPT
       !.project_components =
           Restrict(@, DOMAIN @ \ LinksOfComponent(db, comp_id)),
       !.components =
           [id \in DOMAIN @ |->
               IF id = comp_id THEN [@[id] EXCEPT !.projects = <<>>] ELSE @[id]]]

\* lines 118-119: DELETE FROM components WHERE id = ?; commit
cmd_d_second_commit(db, comp_id) ==
    [db EXCEPT !.components = Restrict(@, DOMAIN @ \ {comp_id})]

\* the whole handler; ok: "Deleted." (TRUE) or "Not found." (FALSE)
cmd_d(db, comp_id, force, confirm) ==
    IF cmd_d_proceeds(db, comp_id, force, confirm)
    THEN Returns(cmd_d_second_commit(cmd_d_first_commit(db, comp_id), comp_id),
                 0, comp_id \in DOMAIN db.components)
    ELSE Outcome(db, "Cancelled", 0, FALSE)

\* the handler cut off (KeyboardInterrupt, end of the process) between its
\* two commits
cmd_d_interrupted(db, comp_id, force, confirm) ==
    IF cmd_d_proceeds(db, comp_id, force, confirm)
    THEN Outcome(cmd_d_first_commit(db, comp_id), "Interrupted", 0, FALSE)
    ELSE Outcome(db, "Cancelled", 0, FALSE)

(***************************************************************************)
(* ComponentInventoryDB.create_project                                     *)
(***************************************************************************)
\* create_project as an upsert: an existing row takes the new description
create_project_Upserts(db, name, description) ==
    LET existing == {id \in DOMAIN db.projects : db.projects[id].name = name}
    IN IF existing # {}
       THEN LET id == CHOOSE e \in existing : TRUE
            IN Returns([db EXCEPT !.projects[id].description = description],
                       id, FALSE)
       ELSE LET new_id == db.seq_projects + 1
            IN Returns([db EXCEPT
                          !.projects =
                              Put(@, new_id, [name |-> name,
                                              description |-> description,
                                              status |-> DefaultStatus]),
                          !.seq_projects = new_id],
                       new_id, FALSE)

create_project(db, name, description) ==
    LET existing == {id \in DOMAIN db.projects : db.projects[id].name = name}
    IN IF existing # {}
       THEN Returns(db, CHOOSE id \in existing : TRUE, FALSE)
       ELSE LET new_id == db.seq_projects + 1
            IN Returns([db EXCEPT
                          !.projects =
                              Put(@, new_id, [name |-> name,
                                              description |-> description,
                                              status |-> DefaultStatus]),
                          !.seq_projects = new_id],
                       new_id, FALSE)

(***************************************************************************)
(* handle_command, 'dp': delete a project; its links go with it           *)
(* (ON DELETE CASCADE).                                                    *)
(***************************************************************************)
cmd_dp(db, pid, confirm) ==
    IF confirm = "y"
    THEN Returns([db EXCEPT
                    !.projects = Restrict(@, DOMAIN @ \ {pid}),
                    !.project_components =
                        Restrict(@, DOMAIN @ \ LinksOfProject(db, pid))],
                 0, TRUE)
    ELSE Outcome(db, "Cancelled", 0, FALSE)

(***************************************************************************)
(* ComponentInventoryDB.add_component_to_project                           *)
(***************************************************************************)
\* the WHERE clause of the tag UPDATE: projects NOT LIKE '%' || tag || '%'
TagAbsent(projs, project_tag) == ~LikeContains(projs, project_tag)

\* SET projects = TRIM(COALESCE(projects, '') || ' ' || tag)
TagAppended(projs, project_tag) == Trim(projs \o <<" ">> \o project_tag)

\* the foreign key to projects not enforced (PRAGMA foreign_keys off)
ForeignKeyProject_Off(db, project_id) == TRUE

\* INSERT OR REPLACE INTO project_components: the foreign key to projects
ForeignKeyProject(db, project_id) == project_id \in DOMAIN db.projects

\* add_component_to_project with the foreign key deferred to the commit and
\* without the rollback of line 283: the tag written before the failure stays
add_component_to_project_NoRollback(db, project_id, component_id, quantity) ==
    LET project_tag == ProjectTag(project_id)
        tagged == [db EXCEPT
                     !.components[component_id].projects =
                         IF TagAbsent(@, project_tag)
                         THEN TagAppended(@, project_tag)
                         ELSE @]
    IN IF component_id \notin DOMAIN db.components
       THEN Raises(db, "ValueError")
       ELSE IF quantity <= 0
       THEN Raises(db, "ValueError")
       ELSE IF ~ForeignKeyProject(db, project_id)
       THEN Returns(tagged, 0, FALSE)
       ELSE Returns([tagged EXCEPT
                       !.project_components =
                           Put(@, <<project_id, component_id>>, quantity)],
                    0, TRUE)

\* add_component_to_project without lines 253-258: the constraints of the
\* table alone refuse the row (IntegrityError, rollback, return False)
add_component_to_project_Unchecked(db, project_id, component_id, quantity) ==
    IF \/ component_id \notin DOMAIN db.components
       \/ ~CheckLinkQuantity(quantity)
       \/ ~ForeignKeyProject(db, project_id)
    THEN Returns(db, 0, FALSE)
    ELSE Returns([db EXCEPT
                    !.project_components =
                        Put(@, <<project_id, component_id>>, quantity),
                    !.components[component_id].projects =
                        IF TagAbsent(@, ProjectTag(project_id))
                        THEN TagAppended(@, ProjectTag(project_id))
                        ELSE @],
                 0, TRUE)

add_component_to_project(db, project_id, component_id, quantity) ==
    LET project_tag == ProjectTag(project_id)
    IN IF component_id \notin DOMAIN db.components
       THEN Raises(db, "ValueError")
       ELSE IF quantity <= 0
       THEN Raises(db, "ValueError")
       ELSE IF ~CheckLinkQuantity(quantity) \/ ~ForeignKeyProject(db, project_id)
       THEN \* sqlite3.IntegrityError: rollback, return False
            Returns(db, 0, FALSE)
       ELSE Returns([db EXCEPT
                       !.project_components =
                           Put(@, <<project_id, component_id>>, quantity),
                       !.components[component_id].projects =
                           IF TagAbsent(@, project_tag)
                           THEN TagAppended(@, project_tag)
                           ELSE @],
                    0, TRUE)

(***************************************************************************)
(* ComponentInventoryDB.remove_component_from_project                      *)
(***************************************************************************)
\* SET projects = TRIM(REPLACE(' ' || projects || ' ', ' ' || tag || ' ', ' '))
TagRemoved(projs, project_tag) ==
    Trim(Replace(<<" ">> \o projs \o <<" ">>,
                 <<" ">> \o project_tag \o <<" ">>,
                 <<" ">>))

\* remove_component_from_project returning the rowcount of its first
\* statement, the UPDATE of the tag, in place of that of the DELETE
remove_component_from_project_TagRowcount(db, project_id, component_id) ==
    LET project_tag == ProjectTag(project_id)
        l == <<project_id, component_id>>
        tagged == /\ component_id \in DOMAIN db.components
                  /\ LikeContains(db.components[component_id].projects,
                                  project_tag)
    IN Returns([db EXCEPT
                  !.components =
                      [id \in DOMAIN @ |->
                          IF id = component_id /\ tagged
                          THEN [@[id] EXCEPT
                                  !.projects = TagRemoved(@, project_tag)]
                          ELSE @[id]],
                  !.project_components = Restrict(@, DOMAIN @ \ {l})],
               0, tagged)

remove_component_from_project(db, project_id, component_id) ==
    LET project_tag == ProjectTag(project_id)
        l == <<project_id, component_id>>
    IN Returns([db EXCEPT
                  !.components =
                      [id \in DOMAIN @ |->
                          IF id = component_id
                             /\ LikeContains(@[id].projects, project_tag)
                          THEN [@[id] EXCEPT
                                  !.projects = TagRemoved(@, project_tag)]
                          ELSE @[id]],
                  !.project_components = Restrict(@, DOMAIN @ \ {l})],
               0, l \in DOMAIN db.project_components)

(***************************************************************************)
(* ComponentInventoryDB.get_project_components and build_project           *)
(***************************************************************************)
\* the rows of project_components JOIN components for project_id
get_project_components(db, project_id) ==
    {[id |-> l[2], required |-> db.project_components[l],
      available |-> db.components[l[2]].quantity] :
        l \in {k \in LinksOfProject(db, project_id) :
                   k[2] \in DOMAIN db.components}}

\* build_project, step 1: comp['available'] < comp['required']
Insufficient_OnlyWhenEmpty(comp) == comp.available = 0
Insufficient(comp) == comp.available < comp.required

\* step 2 with the UPDATE without its WHERE clause: every row loses a
\* required quantity
Deducted_NoWhere(table, comps) ==
    [id \in DOMAIN table |->
        [table[id] EXCEPT
           !.quantity = @ - (IF comps = {} THEN 0
                             ELSE (CHOOSE c \in comps : TRUE).required)]]

\* build_project, step 2: UPDATE components SET quantity = quantity - ?
\* WHERE id = ?, for every comp of comps
Deducted(table, comps) ==
    [id \in DOMAIN table |->
        IF \E comp \in comps : comp.id = id
        THEN [table[id] EXCEPT
                !.quantity = @ - (CHOOSE c \in comps : c.id = id).required]
        ELSE table[id]]

\* step 3 writing the third status the column allows
Completed_Archived(table, project_id) ==
    [table EXCEPT ![project_id].status = "archived"]

\* build_project, step 3: UPDATE projects SET status = 'completed'
Completed(table, project_id) == [table EXCEPT ![project_id].status = "completed"]

\* build_project with a guard that refuses a project already completed
build_project_Once(db, project_id) ==
    LET comps == get_project_components(db, project_id)
    IN IF project_id \notin DOMAIN db.projects
       THEN Returns(db, 0, FALSE)
       ELSE IF db.projects[project_id].status = "completed"
       THEN Returns(db, 0, FALSE)
       ELSE IF \E comp \in comps : Insufficient(comp)
       THEN Raises(db, "ValueError")
       ELSE Returns([db EXCEPT
                       !.components = Deducted(db.components, comps),
                       !.projects = Completed(@, project_id)],
                    0, TRUE)

\* build_project without lines 353-355: for a project id without a row the
\* statements find nothing to update and the call returns True
build_project_Unverified(db, project_id) ==
    LET comps == get_project_components(db, project_id)
        deducted == Deducted(db.components, comps)
    IN IF \E comp \in comps : Insufficient(comp)
       THEN Raises(db, "ValueError")
       ELSE Returns([db EXCEPT
                       !.components = deducted,
                       !.projects =
                           [id \in DOMAIN @ |->
                               IF id = project_id
                               THEN [@[id] EXCEPT !.status = "completed"]
                               ELSE @[id]]],
                    0, TRUE)

build_project(db, project_id) ==
    LET comps == get_project_components(db, project_id)
        deducted == Deducted(db.components, comps)
    IN IF project_id \notin DOMAIN db.projects
       THEN Returns(db, 0, FALSE)
       ELSE IF \E comp \in comps : Insufficient(comp)
       THEN Raises(db, "ValueError")
       ELSE IF \E id \in DOMAIN deducted :
                  ~CheckComponentQuantity(deducted[id].quantity)
       THEN \* sqlite3.IntegrityError: rollback, raise
            Raises(db, "IntegrityError")
       ELSE Returns([db EXCEPT
                       !.components = deducted,
                       !.projects = Completed(@, project_id)],
                    0, TRUE)

(***************************************************************************)
(* handle_command, 'at', 'rf' and 'bp': the call of the core operation and *)
(* the line the handler prints ("": nothing is printed).  An exception of  *)
(* the call is printed as "Error: ..." by the handler.                     *)
(***************************************************************************)
\* the outcome of the core call of a handler, with the line printed
Printed(outcome, line) == [db |-> outcome.db, core |-> outcome, out |-> line]

\* lines 146-149
cmd_at(db, project_id, component_id, quantity) ==
    LET r == add_component_to_project(db, project_id, component_id, quantity)
    IN Printed(r, IF r.exc # "none" THEN "Error: " ELSE "Added.")

\* lines 151-154
cmd_rf(db, project_id, component_id) ==
    LET r == remove_component_from_project(db, project_id, component_id)
    IN Printed(r, IF r.exc # "none" THEN "Error: " ELSE "Removed.")

\* lines 176-182
cmd_bp(db, project_id) ==
    LET r == build_project(db, project_id)
    IN Printed(r, IF r.exc # "none" THEN "Error: "
                  ELSE IF r.ok THEN "Built." ELSE "")

(***************************************************************************)
(* logic.can_build_project                                                 *)
(***************************************************************************)
\* line 22 never true: nothing is reported missing
Missing_Never(comp) == FALSE

\* line 22 with <= in place of <
Missing_OrEqual(comp) == comp.available <= comp.required

\* line 22: comp['available'] < comp['required']
Missing(comp) == comp.available < comp.required

\* the pair (len(missing) == 0, missing) and the database the call leaves;
\* missing holds, for a row of the project, what its message is made of
can_build_project(db, project_id) ==
    LET comps == get_project_components(db, project_id)
        missing == {comp \in comps : Missing(comp)}
    IN [db |-> db, ok |-> missing = {}, missing |-> missing]

(***************************************************************************)
(* logic.get_low_stock_components                                          *)
(***************************************************************************)
\* the threshold of a call, from its arguments after db: <<>> when the
\* caller gives none
ThresholdOf(args) == IF args = <<>> THEN DefaultThreshold ELSE args[1]

\* line 42 with <= in place of <
LowStock_OrEqual(quantity, threshold) == quantity <= threshold

\* line 42: comp.quantity < threshold
LowStock(quantity, threshold) == quantity < threshold

\* the ids of the rows returned, of all the rows search_components() gives,
\* and the database the call leaves
get_low_stock_components(db, args) ==
    [db |-> db,
     rows |-> {id \in DOMAIN db.components :
                  LowStock(db.components[id].quantity, ThresholdOf(args))}]

(***************************************************************************)
(* The session: any call, with any arguments, one after the other, from   *)
(* an empty database.  Calls that would take the database out of the      *)
(* bounds of the model are left out.                                       *)
(***************************************************************************)
Init ==
    /\ components = EmptyTable
    /\ projects = EmptyTable
    /\ project_components = EmptyTable
    /\ seq_components = 0
    /\ seq_projects = 0

InBounds(db) ==
    /\ db.seq_components <= MaxComponents
    /\ db.seq_projects <= MaxProjects
    /\ Cardinality(DOMAIN db.project_components) <= MaxLinks
    /\ \A id \in DOMAIN db.components : db.components[id].quantity <= MaxQty

\* the call ends and leaves the database of its outcome
Commit(outcome) ==
    /\ InBounds(outcome.db)
    /\ components' = outcome.db.components
    /\ projects' = outcome.db.projects
    /\ project_components' = outcome.db.project_components
    /\ seq_components' = outcome.db.seq_components
    /\ seq_projects' = outcome.db.seq_projects

AddComponent ==
    \E key \in Keys, quantity \in QtyInputs, projs \in ProjectsInputs :
        Commit(add_component(DB, key, quantity, projs))

UpdateComponent ==
    \E id \in ComponentIds, key \in Keys, quantity \in QtyInputs,
       projs \in ProjectsInputs :
        Commit(update_component(DB, id, key, quantity, projs))

DeleteComponent ==
    \E id \in ComponentIds : Commit(delete_component(DB, id))

CmdDelete ==
    \E id \in ComponentIds, force \in BOOLEAN, confirm \in Answers :
        Commit(cmd_d(DB, id, force, confirm))

CmdDeleteInterrupted ==
    \E id \in ComponentIds, force \in BOOLEAN, confirm \in Answers :
        Commit(cmd_d_interrupted(DB, id, force, confirm))

CreateProject ==
    \E name \in Names, description \in Descriptions :
        Commit(create_project(DB, name, description))

CmdDeleteProject ==
    \E pid \in ProjectIds, confirm \in Answers : Commit(cmd_dp(DB, pid, confirm))

AddComponentToProject ==
    \E pid \in ProjectIds, cid \in ComponentIds, quantity \in RequiredInputs :
        Commit(cmd_at(DB, pid, cid, quantity))

RemoveComponentFromProject ==
    \E pid \in ProjectIds, cid \in ComponentIds :
        Commit(cmd_rf(DB, pid, cid))

BuildProject ==
    \E pid \in ProjectIds : Commit(cmd_bp(DB, pid))

CanBuildProject ==
    \E pid \in ProjectIds : Commit(can_build_project(DB, pid))

GetLowStockComponents ==
    \E args \in ThresholdInputs : Commit(get_low_stock_components(DB, args))

Next ==
    \/ AddComponent
    \/ UpdateComponent
    \/ DeleteComponent
    \/ CmdDelete
    \/ CmdDeleteInterrupted
    \/ CreateProject
    \/ CmdDeleteProject
    \/ AddComponentToProject
    \/ RemoveComponentFromProject
    \/ BuildProject
    \/ CanBuildProject
    \/ GetLowStockComponents

Spec == Init /\ [][Next]_vars

(***************************************************************************)
(* The projects string: a component entered with any text of project      *)
(* tags in its projects field ('a' asks for it), two projects, and then   *)
(* any 'at' and 'rf' on them.                                              *)
(***************************************************************************)
\* most tokens the text typed for the projects field holds
MaxTokens == 2

\* the tokens a user types
TypedTokens == {ProjectTag(1), ProjectTag(10)}

RECURSIVE Join(_)
\* the tokens of a sequence, with a space between them
Join(tokens) ==
    IF tokens = <<>> THEN <<>>
    ELSE IF Len(tokens) = 1 THEN tokens[1]
    ELSE tokens[1] \o <<" ">> \o Join(Tail(tokens))

\* the texts a user types for the projects field
TypedProjects ==
    {Join(tokens) : tokens \in UNION {[1..n -> TypedTokens] : n \in 0..MaxTokens}}

\* the database _create_tables leaves on a new file
EmptyDB ==
    [components |-> EmptyTable, projects |-> EmptyTable,
     project_components |-> EmptyTable, seq_components |-> 0, seq_projects |-> 0]

InitProjects ==
    \E text \in TypedProjects, quantity \in 0..MaxQty :
        LET added == add_component(EmptyDB, <<"MCU", "STM32F401", "LQFP-64">>,
                                   quantity, text).db
            first == create_project(added, "Blinker", "").db
            second == create_project(first, "Unnamed", "").db
        IN /\ components = second.components
           /\ projects = second.projects
           /\ project_components = second.project_components
           /\ seq_components = second.seq_components
           /\ seq_projects = second.seq_projects

NextProjects ==
    \/ AddComponentToProject
    \/ RemoveComponentFromProject

SpecProjects == InitProjects /\ [][NextProjects]_vars

(***************************************************************************)
(* Properties.                                                             *)
(***************************************************************************)
\* the link l asks for more than its component holds
Short(l) ==
    /\ l[2] \in DOMAIN components
    /\ components[l[2]].quantity < project_components[l]

\* the required quantity of component c in project p, 0 without a link
RequiredOf(p, c) ==
    IF <<p, c>> \in DOMAIN project_components
    THEN project_components[<<p, c>>]
    ELSE 0

\* C1: for every reachable store and existing project with at least one
\* linked component short of stock, build_project raises the
\* insufficient-quantity ValueError and leaves every component quantity,
\* every project status and every link as they were.
C1_BuildFailureIsAtomic ==
    \A p \in DOMAIN projects :
        (\E l \in LinksOfProject(DB, p) : Short(l)) =>
            LET r == build_project(DB, p)
            IN /\ r.exc = "ValueError"
               /\ r.db.components = components
               /\ r.db.projects = projects
               /\ r.db.project_components = project_components

\* a project with one component short and another one in stock
C1_Witness ==
    \E p \in DOMAIN projects :
        \E l1, l2 \in LinksOfProject(DB, p) :
            /\ Short(l1)
            /\ ~Short(l2)
            /\ components[l1[2]].quantity > 0
            /\ build_project(DB, p).exc = "ValueError"

\* C2: when build_project does not fail on an existing project, every
\* component linked to the project has lost exactly the required quantity of
\* its link, every other component keeps its quantity, the links are kept,
\* the project is completed and the call returns True.
C2_BuildDeductsRequired ==
    \A p \in DOMAIN projects :
        LET r == build_project(DB, p)
        IN r.exc = "none" =>
              /\ r.ok
              /\ DOMAIN r.db.components = DOMAIN components
              /\ \A c \in DOMAIN components :
                    r.db.components[c] =
                        [components[c] EXCEPT !.quantity = @ - RequiredOf(p, c)]
              /\ r.db.project_components = project_components
              /\ DOMAIN r.db.projects = DOMAIN projects
              /\ r.db.projects[p].status = "completed"

\* a build that succeeds, of a project with a linked component, beside a
\* component in stock that the project does not use
C2_Witness ==
    \E p \in DOMAIN projects :
        /\ build_project(DB, p).ok
        /\ \E c1, c2 \in DOMAIN components :
              /\ RequiredOf(p, c1) = MaxRequired
              /\ RequiredOf(p, c2) = 0
              /\ components[c2].quantity > 0
              /\ build_project(DB, p).db.components[c1].quantity
                     = components[c1].quantity - MaxRequired

\* C3: in every reachable state every component quantity is >= 0 and every
\* required quantity of a link is > 0.
C3_QuantitiesNonNegative ==
    /\ \A c \in DOMAIN components : components[c].quantity >= 0
    /\ \A l \in DOMAIN project_components : project_components[l] > 0

\* a completed project whose build has used up a component
C3_Witness ==
    \E l \in DOMAIN project_components :
        /\ projects[l[1]].status = "completed"
        /\ components[l[2]].quantity = 0
        /\ project_components[l] > 0

\* the rows of db whose (type, name, package) is key
RowsOfKey(db, key) == {id \in DOMAIN db.components : db.components[id].key = key}

\* the quantity db holds for key, 0 without a row
StockOfKey(db, key) ==
    IF RowsOfKey(db, key) = {} THEN 0
    ELSE db.components[CHOOSE id \in RowsOfKey(db, key) : TRUE].quantity

\* quantities a candidate of a valid addition may carry
ValidQtyInputs == {q \in QtyInputs : q >= 0}

\* C4, as stated: add_component(c1) followed by add_component(c2), same key
\* and non-negative quantities, leaves one row for the key, returns the same
\* id twice, and the stored quantity is c1.quantity + c2.quantity.
C4_AsStated ==
    \A key \in Keys, q1, q2 \in ValidQtyInputs, p1, p2 \in ProjectsInputs :
        LET r1 == add_component(DB, key, q1, p1)
            r2 == add_component(r1.db, key, q2, p2)
        IN /\ r1.exc = "none" /\ r2.exc = "none"
           /\ Cardinality(RowsOfKey(r2.db, key)) = 1
           /\ r1.ret = r2.ret
           /\ StockOfKey(r2.db, key) = q1 + q2

\* C4, amended: ... and the stored quantity is the quantity stored for the
\* key before the first call (0 without a row) plus c1.quantity + c2.quantity.
C4_AddTwiceMerges ==
    \A key \in Keys, q1, q2 \in ValidQtyInputs, p1, p2 \in ProjectsInputs :
        LET r1 == add_component(DB, key, q1, p1)
            r2 == add_component(r1.db, key, q2, p2)
        IN /\ r1.exc = "none" /\ r2.exc = "none"
           /\ RowsOfKey(r2.db, key) = {r2.ret}
           /\ r1.ret = r2.ret
           /\ StockOfKey(r2.db, key) = StockOfKey(DB, key) + q1 + q2

\* one key in stock and the other one without a row: both paths of the
\* first call, and the two additions seen in the stored quantity
C4_Witness ==
    \E k1, k2 \in Keys :
        /\ StockOfKey(DB, k1) > 0
        /\ RowsOfKey(DB, k2) = {}
        /\ DOMAIN components # {}
        /\ \A k \in {k1, k2} :
              StockOfKey(add_component(add_component(DB, k, 1, <<>>).db,
                                       k, 2, <<>>).db, k)
                  = StockOfKey(DB, k) + 3

\* C5: add_component fails whenever candidate.quantity is negative, on the
\* insert path and on the merge path, and the store is unchanged.
C5_NegativeQuantityRejected ==
    \A key \in Keys, q \in QtyInputs \ ValidQtyInputs, projs \in ProjectsInputs :
        LET r == add_component(DB, key, q, projs)
        IN r.exc # "none" /\ r.db = DB

\* the project ids a tag may name: those of the model and the one a user types
TagIds == ProjectIds \cup {10}

\* the token proj_<p> occurs in the projects string of component c
Tagged(db, c, p) == TokenCount(db.components[c].projects, ProjectTag(p)) > 0

\* C6: in every reachable state, for every component c and project id p, the
\* token proj_<p> occurs in c.projects if and only if a link (p, c) exists.
C6_TagsMirrorLinks ==
    \A c \in DOMAIN components, p \in TagIds :
        Tagged(DB, c, p) <=> <<p, c>> \in DOMAIN project_components

\* C7: after a successful add_component_to_project(p, c, q) the projects
\* string of c holds the token proj_<p> exactly once, whatever it held before.
C7_TagPresentOnce ==
    \A p \in ProjectIds, c \in ComponentIds, q \in RequiredInputs :
        LET r == add_component_to_project(DB, p, c, q)
        IN (r.exc = "none" /\ r.ok) =>
              TokenCount(r.db.components[c].projects, ProjectTag(p)) = 1

C9_ForcedDeleteCascades ==
    \A c \in DOMAIN components, force \in BOOLEAN, confirm \in Answers :
        (force \/ confirm = "y") =>
            LET r == cmd_d(DB, c, force, confirm)
            IN /\ r.exc = "none"
               /\ DOMAIN r.db.components = DOMAIN components \ {c}
               /\ \A o \in DOMAIN components \ {c} :
                     r.db.components[o] = components[o]
               /\ LinksOfComponent(r.db, c) = {}
               /\ r.db.project_components =
                     Restrict(project_components,
                              DOMAIN project_components \ LinksOfComponent(DB, c))
               /\ r.db.projects = projects

\* a linked component to delete beside another linked and tagged component
C9_Witness ==
    \E c, o \in DOMAIN components :
        /\ c # o
        /\ LinksOfComponent(DB, c) # {}
        /\ LinksOfComponent(DB, o) # {}
        /\ components[o].projects # <<>>
        /\ c \notin DOMAIN cmd_d(DB, c, TRUE, "n").db.components

\* C10: the forced delete is one transaction: the handler leaves no
\* committed state in which the links of the component are removed or its
\* projects string is cleared while its row still exists.
C10_ForcedDeleteOneTransaction ==
    \A c \in ComponentIds, force \in BOOLEAN, confirm \in Answers :
        LET mid == cmd_d_interrupted(DB, c, force, confirm).db
        IN (mid.project_components # project_components
               \/ mid.components # components)
                  => c \notin DOMAIN mid.components

\* descriptions of a second create_project call: the stored one and another
SecondDescriptions == Descriptions \cup {"LED blinker"}

\* the project rows of db named name
RowsOfName(db, name) == {id \in DOMAIN db.projects : db.projects[id].name = name}

\* C11: create_project(name, d1) followed, after any operations that do not
\* delete that project, by create_project(name, d2) returns the same id both
\* times, leaves exactly one project row with that name, and the second call
\* changes nothing in the store.  In every reachable state: a second call
\* right after a first returns the id of the first and changes nothing; a
\* call for the name of an existing row returns the id of that row, the only
\* one of that name, and changes nothing.  In every step: a project row that
\* stays keeps its name and its description.
C11_CreateProjectIdempotent ==
    /\ [](
       /\ \A name \in Names, d1 \in Descriptions, d2 \in SecondDescriptions :
               LET r1 == create_project(DB, name, d1)
                   r2 == create_project(r1.db, name, d2)
               IN /\ r1.exc = "none" /\ r2.exc = "none"
                  /\ r2.ret = r1.ret
                  /\ r2.db = r1.db
                  /\ RowsOfName(r2.db, name) = {r1.ret}
                  /\ RowsOfName(DB, name) = {}
                        => /\ r1.db.projects[r1.ret].description = d1
                           /\ r1.db.projects[r1.ret].status = "active"
       /\ \A p \in DOMAIN projects, d \in SecondDescriptions :
               LET r == create_project(DB, projects[p].name, d)
               IN /\ r.ret = p
                  /\ r.db = DB
                  /\ RowsOfName(DB, projects[p].name) = {p})
    /\ [][\A p \in DOMAIN projects \cap DOMAIN projects' :
              /\ projects'[p].name = projects[p].name
              /\ projects'[p].description = projects[p].description]_vars

\* a project that was built since its creation, beside another project, and
\* a second create_project with another description
C11_Witness ==
    \E p, o \in DOMAIN projects :
        /\ p # o
        /\ projects[p].status = "completed"
        /\ LinksOfProject(DB, p) # {}
        /\ create_project(DB, projects[p].name, "LED blinker").ret = p
        /\ "LED blinker" # projects[p].description

\* C12: in every reachable state every link row references a project that
\* exists and a component that exists; add_component_to_project creates no
\* link for a project id that does not exist; deleting a project ('dp')
\* removes all the links of that project.
C12_LinksReferenceExistingRows ==
    /\ \A l \in DOMAIN project_components :
          l[1] \in DOMAIN projects /\ l[2] \in DOMAIN components
    /\ \A p \in ProjectIds \ DOMAIN projects, c \in ComponentIds,
          q \in RequiredInputs :
          add_component_to_project(DB, p, c, q).db.project_components
              = project_components
    /\ \A p \in ProjectIds :
          LET r == cmd_dp(DB, p, "y")
          IN /\ p \notin DOMAIN r.db.projects
             /\ LinksOfProject(r.db, p) = {}
             /\ \A l \in DOMAIN r.db.project_components :
                   l[1] \in DOMAIN r.db.projects

\* a project with links to delete, and a deleted project to link a
\* component to
C12_Witness ==
    \E p \in DOMAIN projects, q \in ProjectIds \ DOMAIN projects,
       c \in DOMAIN components :
        /\ q <= seq_projects
        /\ LinksOfProject(DB, p) # {}
        /\ LinksOfProject(cmd_dp(DB, p, "y").db, p) = {}
        /\ add_component_to_project(DB, q, c, 1).exc = "none"
        /\ ~add_component_to_project(DB, q, c, 1).ok

\* C13: in every reachable state no two component rows share the same
\* (type, name, package); an update_component that would give a row the key
\* of another existing row fails and leaves the store unchanged.
C13_KeysUnique ==
    /\ \A c1, c2 \in DOMAIN components :
          components[c1].key = components[c2].key => c1 = c2
    /\ \A id \in DOMAIN components, key \in Keys, q \in QtyInputs,
          projs \in ProjectsInputs :
          RowsOfKey(DB, key) \ {id} # {} =>
              LET r == update_component(DB, id, key, q, projs)
              IN r.exc # "none" /\ ~r.ok /\ r.db = DB

\* two rows of different keys, in stock: an update of either to the key of
\* the other is refused
C13_Witness ==
    \E c1, c2 \in DOMAIN components :
        /\ c1 # c2
        /\ components[c1].quantity > 0
        /\ components[c2].quantity > 0
        /\ update_component(DB, c1, components[c2].key, 1, <<>>).exc
               = "IntegrityError"

\* quantities a caller may ask add_component_to_project for, valid or not
AnyRequiredInputs == RequiredInputs \cup {-1}

\* C14: add_component_to_project(p, c, q) fails with an explicit error
\* (ValueError) when c does not exist and when q <= 0; no link is created or
\* changed and no projects string is changed.
C14_LinkArgumentsChecked ==
    \A p \in ProjectIds, c \in ComponentIds, q \in AnyRequiredInputs :
        (c \notin DOMAIN components \/ q <= 0) =>
            LET r == add_component_to_project(DB, p, c, q)
            IN /\ r.exc = "ValueError"
               /\ r.db.project_components = project_components
               /\ r.db.components = components

\* a linked component, refused with a quantity of 0 for its project, beside
\* the id of a deleted component, refused with a valid quantity
C14_Witness ==
    \E l \in DOMAIN project_components, c \in ComponentIds \ DOMAIN components :
        /\ c <= seq_components
        /\ add_component_to_project(DB, l[1], l[2], 0).exc = "ValueError"
        /\ add_component_to_project(DB, l[1], c, 1).exc = "ValueError"

C16_RemoveReportsLink ==
    \A p \in ProjectIds, c \in ComponentIds :
        LET r == remove_component_from_project(DB, p, c)
        IN /\ r.exc = "none"
           /\ r.ok <=> <<p, c>> \in DOMAIN project_components
           /\ <<p, c>> \notin DOMAIN r.db.project_components
           /\ \A row \in get_project_components(r.db, p) : row.id # c
           /\ r.db.project_components
                 = Restrict(project_components,
                            DOMAIN project_components \ {<<p, c>>})
           /\ DOMAIN r.db.components = DOMAIN components
           /\ \A id \in DOMAIN components :
                 r.db.components[id].quantity = components[id].quantity

\* a link to remove beside a link of another pair, and a component that
\* carries the tag of a project it is not linked to
C16_Witness ==
    \E l, o \in DOMAIN project_components, c \in DOMAIN components,
       p \in ProjectIds :
        /\ l # o
        /\ remove_component_from_project(DB, l[1], l[2]).ok
        /\ <<p, c>> \notin DOMAIN project_components
        /\ LikeContains(components[c].projects, ProjectTag(p))
        /\ ~remove_component_from_project(DB, p, c).ok

\* the links of project p that ask for more than their component holds
ShortLinks(p) == {l \in LinksOfProject(DB, p) : Short(l)}

\* C17: can_build_project(p) changes no stored state, returns True exactly
\* when every link of the project has available quantity >= required
\* quantity (so also for a project without links), and returns one shortfall
\* entry for each link with available < required and none for the others.
C17_CanBuildReportsShortfalls ==
    \A p \in ProjectIds :
        LET r == can_build_project(DB, p)
        IN /\ r.db = DB
           /\ r.ok <=> \A l \in LinksOfProject(DB, p) :
                           components[l[2]].quantity >= project_components[l]
           /\ \A l \in LinksOfProject(DB, p) :
                 Cardinality({m \in r.missing : m.id = l[2]})
                     = IF Short(l) THEN 1 ELSE 0
           /\ \A m \in r.missing :
                 /\ <<p, m.id>> \in ShortLinks(p)
                 /\ m.required = project_components[<<p, m.id>>]
                 /\ m.available = components[m.id].quantity

\* a project with a link short of stock and a link with exactly the stock
\* it requires, beside a project without links
C17_Witness ==
    \E p, o \in DOMAIN projects :
        /\ LinksOfProject(DB, o) = {}
        /\ can_build_project(DB, o).ok
        /\ ~can_build_project(DB, p).ok
        /\ \E l1, l2 \in LinksOfProject(DB, p) :
              /\ Short(l1)
              /\ components[l2[2]].quantity = project_components[l2]

\* project ids a caller may name: those handed out and one never handed out
AnyProjectIds == ProjectIds \cup {MaxProjects + 1}

\* C18: build_project on a project id that does not exist returns False
\* without raising and leaves every component quantity, every project
\* status and every link unchanged.
C18_BuildMissingProjectReturnsFalse ==
    \A p \in AnyProjectIds \ DOMAIN projects :
        LET r == build_project(DB, p)
        IN /\ r.exc = "none"
           /\ ~r.ok
           /\ r.db = DB

\* the id of a deleted project, beside a project that could be built
C18_Witness ==
    \E p \in ProjectIds \ DOMAIN projects, o \in DOMAIN projects :
        /\ p <= seq_projects
        /\ LinksOfProject(DB, o) # {}
        /\ build_project(DB, o).ok
        /\ ~build_project(DB, p).ok
        /\ build_project(DB, p).exc = "none"

\* C19: over any sequence of operations a project is active when created,
\* its status changes only in a successful build_project of that project,
\* from active to completed, it is never archived, and once completed it is
\* never active again for as long as its row exists.
C19_StatusLifecycle ==
    /\ [](\A p \in DOMAIN projects :
              projects[p].status \in {"active", "completed"})
    /\ [][/\ \A p \in DOMAIN projects' \ DOMAIN projects :
                projects'[p].status = "active"
          /\ \A p \in DOMAIN projects \cap DOMAIN projects' :
                /\ projects[p].status = "completed"
                      => projects'[p].status = "completed"
                /\ projects'[p].status # projects[p].status
                      => /\ projects[p].status = "active"
                         /\ projects'[p].status = "completed"
                         /\ build_project(DB, p).ok
                         /\ DB' = build_project(DB, p).db]_vars

\* a completed project that is built again and stays completed, beside an
\* active project that can be built
C19_Witness ==
    \E p, o \in DOMAIN projects :
        /\ projects[p].status = "completed"
        /\ projects[o].status = "active"
        /\ LinksOfProject(DB, o) # {}
        /\ build_project(DB, o).ok
        /\ build_project(DB, p).ok
        /\ build_project(DB, p).db.projects[p].status = "completed"

\* the call failed: it raised, or it returned False
Failed(outcome) == outcome.exc # "none" \/ ~outcome.ok

\* the line reports an error
ReportsFailure(line) == line = "Error: "

\* C20: no front-end command reports success, or reports nothing, when the
\* core call it made returned failure or raised: 'at' when
\* add_component_to_project fails, 'rf' when remove_component_from_project
\* fails, 'bp' when build_project fails.
C20_FailuresReported ==
    /\ \A p \in AnyProjectIds, c \in ComponentIds, q \in AnyRequiredInputs :
          Failed(cmd_at(DB, p, c, q).core)
              => ReportsFailure(cmd_at(DB, p, c, q).out)
    /\ \A p \in AnyProjectIds, c \in ComponentIds :
          Failed(cmd_rf(DB, p, c).core) => ReportsFailure(cmd_rf(DB, p, c).out)
    /\ \A p \in AnyProjectIds :
          Failed(cmd_bp(DB, p).core) => ReportsFailure(cmd_bp(DB, p).out)

C22_BuildIffCanBuild ==
    \A p \in DOMAIN projects :
        LET b == build_project(DB, p)
        IN /\ (b.exc = "none" /\ b.ok) <=> can_build_project(DB, p).ok
           /\ LinksOfProject(DB, p) = {} =>
                 /\ b.exc = "none" /\ b.ok
                 /\ b.db.projects[p].status = "completed"
                 /\ b.db.components = components

\* an active project without links beside components in stock, and a
\* project with a link short of stock that neither builds nor can build
C22_Witness ==
    \E p, o \in DOMAIN projects :
        /\ LinksOfProject(DB, o) = {}
        /\ projects[o].status = "active"
        /\ build_project(DB, o).ok
        /\ \E l \in LinksOfProject(DB, p) :
              Short(l) /\ components[l[2]].quantity > 0
        /\ ~can_build_project(DB, p).ok
        /\ build_project(DB, p).exc = "ValueError"

RECURSIVE Without(_, _)
\* the sequence of tokens with every tok taken out
Without(tokens, tok) ==
    IF tokens = <<>> THEN <<>>
    ELSE IF Head(tokens) = tok THEN Without(Tail(tokens), tok)
    ELSE <<Head(tokens)>> \o Without(Tail(tokens), tok)

\* C23: remove_component_from_project(p, c) removes from the projects
\* string of c exactly the whole token proj_<p> and leaves every other
\* token as it is, tokens that contain proj_<p> included: the tokens after
\* the call are those before it without proj_<p>, in the same order.
C23_ExactTokenRemoved ==
    \A p \in ProjectIds, c \in DOMAIN components :
        Split(remove_component_from_project(DB, p, c).db.components[c].projects)
            = Without(Split(components[c].projects), ProjectTag(p))

RECURSIVE BuiltTimes(_, _, _)
\* the outcome of the n-th of n build_project calls in a row, or of the
\* first of them that does not succeed
BuiltTimes(db, p, n) ==
    IF n = 0 THEN Returns(db, 0, TRUE)
    ELSE LET before == BuiltTimes(db, p, n - 1)
         IN IF before.exc = "none" /\ before.ok
            THEN build_project(before.db, p)
            ELSE before

\* C24: build_project on a project already completed is not rejected: with
\* a link short of stock it fails (ValueError) and changes nothing;
\* otherwise it deducts the required quantities again and the status stays
\* completed.  So n successful builds of a project in a row take n times
\* its required quantity from each linked component.
C24_RebuildDeductsAgain ==
    /\ \A p \in DOMAIN projects :
          projects[p].status = "completed" =>
              LET r == build_project(DB, p)
              IN IF \E l \in LinksOfProject(DB, p) : Short(l)
                 THEN r.exc = "ValueError" /\ r.db = DB
                 ELSE /\ r.exc = "none" /\ r.ok
                      /\ r.db.projects = projects
                      /\ r.db.project_components = project_components
                      /\ \A c \in DOMAIN components :
                            r.db.components[c].quantity
                                = components[c].quantity - RequiredOf(p, c)
    /\ \A p \in DOMAIN projects, n \in 1..MaxQty :
          LET r == BuiltTimes(DB, p, n)
          IN (r.exc = "none" /\ r.ok) =>
                /\ r.db.projects[p].status = "completed"
                /\ \A c \in DOMAIN components :
                      r.db.components[c].quantity
                          = components[c].quantity - n * RequiredOf(p, c)

\* a completed project, restocked, that can be built twice more, beside a
\* completed project that is short of stock
C24_Witness ==
    \E p, o \in DOMAIN projects :
        /\ projects[p].status = "completed"
        /\ projects[o].status = "completed"
        /\ LinksOfProject(DB, p) # {}
        /\ BuiltTimes(DB, p, 2).ok
        /\ build_project(DB, o).exc = "ValueError"

\* C25: add_component_to_project(p, c, q) with an existing component,
\* q > 0 and a project id that does not exist returns False without
\* raising and is rolled back as a whole: no link is created and the
\* projects string of c does not gain the token proj_<p>.
C25_MissingProjectRolledBack ==
    \A p \in AnyProjectIds \ DOMAIN projects, c \in DOMAIN components,
       q \in 1..MaxRequired :
        LET r == add_component_to_project(DB, p, c, q)
        IN /\ r.exc = "none"
           /\ ~r.ok
           /\ r.db.project_components = project_components
           /\ r.db.components = components
           /\ r.db = DB

\* a component linked to a project and tagged for it, and the id of a
\* deleted project whose token the component does not carry
C25_Witness ==
    \E c \in DOMAIN components, p \in ProjectIds \ DOMAIN projects :
        /\ p <= seq_projects
        /\ LinksOfComponent(DB, c) # {}
        /\ components[c].projects # <<>>
        /\ TagAbsent(components[c].projects, ProjectTag(p))
        /\ ~add_component_to_project(DB, p, c, MaxRequired).ok
        /\ add_component_to_project(DB, p, c, MaxRequired).exc = "none"

====
